---- MODULE Spec2Model ----
(***************************************************************************)
(* The sales dashboard of src/app.py as a state machine.                   *)
(*                                                                         *)
(* The script runs top to bottom on every user interaction.  One run is    *)
(* the chain of steps                                                      *)
(*   ReloadButton -> LoadData -> Normalize -> Widgets -> FilterEngine      *)
(*   -> Render                                                             *)
(* and the only state that survives a run is the st.cache_data entry of    *)
(* load_data and the file on disk.                                         *)
(***************************************************************************)
EXTENDS Integers, Sequences, FiniteSets, TLC

\* ------------------------------------------------------------------ bounds

\* Longest table (number of data rows of data.xlsx) the model draws.
MaxRows == 2

\* Resolution of a model timestamp: ticks per second (pandas keeps nanoseconds).
TicksPerSecond == 2

\* load_data calls since the cache was last empty are counted up to this cap.
MaxLoads == 2

\* pd.Timedelta(days=1) in seconds.
SecondsPerDay == 86400

\* ------------------------------------------------------------------ values

\* A cell or value of a table: k is its kind, n its number, s its text.
\*   "empty"    a blank spreadsheet cell (None / NaN in the object column)
\*   "num"      a numeric spreadsheet cell
\*   "text"     a text spreadsheet cell
\*   "datetime" a date spreadsheet cell, n in ticks since day 0, 00:00:00
\*   "ts"       a pandas Timestamp, n in ticks        "nat"  NaT
\*   "fin"      a finite float64                      "inf"  +infinity
\*   "nan"      NaN
Val(k, n, s) == [k |-> k, n |-> n, s |-> s]
Empty == Val("empty", 0, "")
Num(n) == Val("num", n, "")
Text(s) == Val("text", 0, s)
DateTime(t) == Val("datetime", t, "")
Timestamp(t) == Val("ts", t, "")
NaT == Val("nat", 0, "")
Fin(n) == Val("fin", n, "")
Inf == Val("inf", 0, "")
NaN == Val("nan", 0, "")

\* pandas isna(): None, NaN and NaT are missing; infinity is not.
isna(v) == v.k \in {"empty", "nat", "nan"}

TicksPerDay == SecondsPerDay * TicksPerSecond

\* Timestamp.date(): the calendar day of a timestamp.
DateOf(v) == v.n \div TicksPerDay

\* float64 multiplication (Units * UnitPrice): NaN propagates, inf * 0 is NaN.
Mul(a, b) ==
    IF a.k = "nan" \/ b.k = "nan" THEN NaN
    ELSE IF a.k = "inf" THEN (IF b = Fin(0) THEN NaN ELSE Inf)
    ELSE IF b.k = "inf" THEN (IF a = Fin(0) THEN NaN ELSE Inf)
    ELSE Fin(a.n * b.n)

\* float64 addition, as the sums of the aggregations use it.
Add(a, b) ==
    IF a.k = "nan" \/ b.k = "nan" THEN NaN
    ELSE IF a.k = "inf" \/ b.k = "inf" THEN Inf
    ELSE Fin(a.n + b.n)

\* ------------------------------------------------------------------ tables

Columns == {"Date", "Product", "Region", "Units", "UnitPrice", "Revenue"}

Row(d, p, r, u, up, rev) ==
    [Date |-> d, Product |-> p, Region |-> r, Units |-> u, UnitPrice |-> up,
     Revenue |-> rev]

\* A DataFrame: its column names and its rows.  isNone marks Python's None,
\* which load_data returns in place of a DataFrame on failure.
DataFrame(cols, rows) == [isNone |-> FALSE, cols |-> cols, rows |-> rows]
NoneDf == [isNone |-> TRUE, cols |-> {}, rows |-> <<>>]

\* The file data.xlsx on disk.
XlsxFile(cols, rows) == [kind |-> "xlsx", cols |-> cols, rows |-> rows]
AbsentFile == [kind |-> "absent", cols |-> {}, rows |-> <<>>]
CorruptFile == [kind |-> "corrupt", cols |-> {}, rows |-> <<>>]

\* df.get(col): the column's cell, or None when the frame has no such column.
Get(cols, row, col) == IF col \in cols THEN row[col] ELSE Empty

\* ------------------------------------------------------------------ state

VARIABLES
    file,             \* data.xlsx as it is on disk now
    cache,            \* the st.cache_data entry of load_data(excel_file)
    clicked,          \* the run under way was started by the Reload Data button
    pc,               \* the statement the script run has reached
    loaded,           \* the (df, error) pair load_data returned to this run
    df,               \* the script's df
    selected_region,  \* value of the Region multiselect
    selected_product, \* value of the Product multiselect
    date_range,       \* value of the Date Range input (isNone: Python's None)
    df_clean,         \* the script's df_clean (rows; the columns are df's)
    page,             \* what this run has put on the page, by location
    fileRead,         \* history: this run's load_data call read the file
    loads,            \* history: load_data calls since the cache was last empty
    lastRead          \* history: what the last read of the file produced

vars == <<file, cache, clicked, pc, loaded, df, selected_region,
          selected_product, date_range, df_clean, page, fileRead, loads,
          lastRead>>

\* ------------------------------------------------------------------ Loader

NoError == "None"
FileMissingMsg ==
    "Error: data.xlsx not found. Please ensure the file exists in the project folder."
ParseErrorMsg == "Error loading file: <str(e)>"

LoadResult(frame, err) == [df |-> frame, error |-> err]
NoResult == LoadResult(NoneDf, NoError)

\* The body of load_data: pd.read_excel and the two except clauses.
load_data(f) ==
    CASE f.kind = "xlsx" -> LoadResult(DataFrame(f.cols, f.rows), NoError)
      [] f.kind = "absent" -> LoadResult(NoneDf, FileMissingMsg)
      [] f.kind = "corrupt" -> LoadResult(NoneDf, ParseErrorMsg)

\* The st.cache_data entry: empty, or the value load_data returned.
EmptyCache == [hit |-> FALSE, value |-> NoResult]

\* A variant of the decorator that keeps successful results only.
CacheSuccessOnly(result) ==
    IF result.error = NoError THEN [hit |-> TRUE, value |-> result] ELSE EmptyCache

\* @st.cache_data stores whatever the function returns, the error pair included.
StoreInCache(result) == [hit |-> TRUE, value |-> result]

\* A Reload button handler that forgets to clear the cache.
KeepCache(c) == c

\* st.cache_data.clear()
ClearCache(c) == EmptyCache

\* A script that goes on after showing the error.
GoOnAfterError(err) == "normalize"

\* if error: st.error(error); st.stop()
AfterLoad(err) == IF err # NoError THEN "stopped" ELSE "normalize"

\* ------------------------------------------------------------------ page

\* One location of the page: nothing yet, a placeholder message, or content.
Blank == [kind |-> "blank", data |-> <<>>]
Placeholder == [kind |-> "placeholder", data |-> <<>>]
Shown(d) == [kind |-> "shown", data |-> d]

BlankPage ==
    [error |-> NoError, exception |-> NoError, kpis |-> Blank, product |-> Blank, region |-> Blank,
     daily |-> Blank, preview |-> Blank, export |-> Blank]

NoDateRange == [isNone |-> TRUE, v |-> <<>>]
DateRange(v) == [isNone |-> FALSE, v |-> v]

\* The script's variables before a run has assigned them.
RunStart ==
    /\ pc' = "button"
    /\ loaded' = NoResult
    /\ df' = NoneDf
    /\ selected_region' = {}
    /\ selected_product' = {}
    /\ date_range' = NoDateRange
    /\ df_clean' = <<>>
    /\ page' = BlankPage
    /\ fileRead' = FALSE

Idle == pc \in {"done", "stopped", "crashed"}

\* ------------------------------------------------------------------ Normalizer
\* The column names are modelled after lines 88-104 have trimmed and renamed
\* them: a table's cols are canonical names.

\* The text dates and numbers the model's spreadsheets hold.
ParseDate(s) == IF s = "1970-01-02" THEN Timestamp(TicksPerDay) ELSE NaT

ParseNumber(s) ==
    CASE s = "inf" -> Inf
      [] s = "4" -> Fin(4)
      [] OTHER -> NaN

\* pd.to_datetime(cell, errors="coerce")
to_datetime(c) ==
    CASE c.k = "datetime" -> Timestamp(c.n)
      [] c.k = "text" -> ParseDate(c.s)
      [] c.k = "empty" -> NaT

\* pd.to_numeric(cell, errors="coerce")
to_numeric(c) ==
    CASE c.k = "num" -> Fin(c.n)
      [] c.k = "text" -> ParseNumber(c.s)
      [] c.k = "empty" -> NaN

\* A Normalizer that trusts a numeric Revenue cell of the source.
KeepSourceRevenue(r) ==
    IF r.Revenue.k = "num" THEN Fin(r.Revenue.n) ELSE Mul(r.Units, r.UnitPrice)

\* df["Revenue"] = df["Units"] * df["UnitPrice"], on a row already coerced.
ComputeRevenue(r) == Mul(r.Units, r.UnitPrice)

\* Lines 110-115 on one row of a frame with columns cols.
Coerce(cols, r) ==
    LET c == [r EXCEPT !.Date = to_datetime(Get(cols, r, "Date")),
                       !.Units = to_numeric(Get(cols, r, "Units")),
                       !.UnitPrice = to_numeric(Get(cols, r, "UnitPrice")),
                       !.Product = Get(cols, r, "Product"),
                       !.Region = Get(cols, r, "Region"),
                       !.Revenue = Get(cols, r, "Revenue")]
    IN  [c EXCEPT !.Revenue = ComputeRevenue(c)]

\* The columns lines 110-115 assign.
AssignedColumns == {"Date", "Units", "UnitPrice", "Revenue"}

\* A completeness check that forgets Units.
DropnaSubsetNoUnits == {"Date", "Product", "Region", "UnitPrice"}

\* subset= of the dropna of line 118
DropnaSubset == {"Date", "Product", "Region", "Units", "UnitPrice"}

Complete(r) == \A c \in DropnaSubset : ~isna(r[c])

CoerceRows(cols, rows) == [i \in 1..Len(rows) |-> Coerce(cols, rows[i])]

\* The frame after lines 110-115.
Coerced(frame) ==
    DataFrame(frame.cols \cup AssignedColumns, CoerceRows(frame.cols, frame.rows))

\* DataFrame.dropna(subset=...) raises KeyError for a label that is no column.
DropnaRaises(frame) == ~(DropnaSubset \subseteq frame.cols)

\* The frame after line 118 (when it does not raise).
Dropna(frame) == DataFrame(frame.cols, SelectSeq(frame.rows, Complete))

\* ------------------------------------------------------------------ Widgets

ColumnValues(rows, col) == {rows[i][col] : i \in 1..Len(rows)}

\* sorted(df[col].dropna().unique()), as the set of the multiselect's options
unique(rows, col) == {v \in ColumnValues(rows, col) : ~isna(v)}

DateTicks(rows) == {rows[i].Date.n : i \in {j \in 1..Len(rows) : rows[j].Date.k = "ts"}}

\* df["Date"].min() and .max(): NaT for a frame with no valid date.
min_date(rows) ==
    IF DateTicks(rows) = {} THEN NaT
    ELSE Timestamp(CHOOSE t \in DateTicks(rows) : \A u \in DateTicks(rows) : t <= u)

max_date(rows) ==
    IF DateTicks(rows) = {} THEN NaT
    ELSE Timestamp(CHOOSE t \in DateTicks(rows) : \A u \in DateTicks(rows) : t >= u)

\* The calendar days the user can pick in the date input.
Days == {0, 1}

\* What st.date_input can return for a range: both endpoints, the first one
\* only (the user is still choosing), or nothing.
UserRanges ==
    {p \in Days \X Days : p[1] <= p[2]} \cup {<<a>> : a \in Days} \cup {<<>>}

\* Lines 146-157: no date input when the data has no valid date.
DateInputs(rows) ==
    IF isna(min_date(rows)) \/ isna(max_date(rows)) THEN {NoDateRange}
    ELSE {DateRange(v) : v \in UserRanges}

\* ------------------------------------------------------------------ Filter Engine

\* A filter for which an empty selection means "no filter".
IsinOrAll(rows, col, selected) ==
    IF selected # {} THEN
        LET In(r) == r[col] \in selected IN SelectSeq(rows, In)
    ELSE rows

\* Lines 162-165 and 167-170: isin(selected), or iloc[0:0] for an empty selection.
IsinOrEmpty(rows, col, selected) ==
    IF selected # {} THEN
        LET In(r) == r[col] \in selected IN SelectSeq(rows, In)
    ELSE <<>>

\* start_date = pd.to_datetime(date_range[0]), in ticks
start_date(d) == d * TicksPerDay

\* An end boundary at the start of the end date.
EndAtMidnight(d) == d * TicksPerDay

\* end_date = pd.to_datetime(date_range[1]) + Timedelta(days=1) - Timedelta(seconds=1)
end_date(d) == d * TicksPerDay + TicksPerDay - TicksPerSecond

\* if date_range and len(date_range) == 2
DateFilterApplies(dr) == ~dr.isNone /\ Len(dr.v) = 2

\* Lines 172-175.
DateFilter(rows, dr) ==
    IF DateFilterApplies(dr) THEN
        LET In(r) == /\ r.Date.k = "ts"
                     /\ r.Date.n >= start_date(dr.v[1])
                     /\ r.Date.n <= end_date(dr.v[2])
        IN  SelectSeq(rows, In)
    ELSE rows

HasRevenue(r) == ~isna(r.Revenue)

\* Lines 160-178: df_filtered, then df_clean.
FilterRows(rows, regionSel, productSel, dr) ==
    SelectSeq(
        DateFilter(
            IsinOrEmpty(IsinOrEmpty(rows, "Region", regionSel), "Product", productSel),
            dr),
        HasRevenue)

\* ------------------------------------------------------------------ Aggregator

RECURSIVE SumOf(_, _)
\* Series.sum() of column col: 0 for no rows.
SumOf(rows, col) ==
    IF rows = <<>> THEN Fin(0) ELSE Add(Head(rows)[col], SumOf(Tail(rows), col))

\* groupby(col)["Revenue"].sum(): one (key, sum) pair per value of col.  The
\* order sort_values gives the pairs is presentation and is left out.
GroupSum(rows, col) ==
    {<<k, SumOf(LET In(r) == r[col] = k IN SelectSeq(rows, In), "Revenue")>> :
        k \in ColumnValues(rows, col)}

RECURSIVE Ascending(_)
\* The keys of a groupby in its (sorted) output order.
Ascending(S) ==
    IF S = {} THEN <<>>
    ELSE LET m == CHOOSE x \in S : \A y \in S : x <= y
         IN  <<m>> \o Ascending(S \ {m})

\* df_clean.groupby("Date"): the group key of a row is its Date value itself.
GroupKey(v) == v.n

\* Lines 289-292: daily_rev, one (Date, Revenue) entry per group, keys ascending.
daily_rev(rows) ==
    LET keys == Ascending({GroupKey(rows[i].Date) : i \in 1..Len(rows)})
        Of(k) == LET In(r) == GroupKey(r.Date) = k IN SelectSeq(rows, In)
    IN  [i \in 1..Len(keys) |->
            [Date |-> Timestamp(keys[i]), Revenue |-> SumOf(Of(keys[i]), "Revenue")]]

\* Lines 187-188: the KPI sums.  The mean and the top product are display
\* values no other step reads and are left out.
Kpis(rows) ==
    [total_revenue |-> SumOf(rows, "Revenue"), total_units |-> SumOf(rows, "Units")]

\* Lines 224-251: the product chart, or its warning for an empty table.
ProductLocation(rows) ==
    IF rows = <<>> THEN Placeholder ELSE Shown(GroupSum(rows, "Product"))

\* Lines 255-279: the region pie is built and plotted whatever df_clean holds.
RegionLocation(rows) == Shown(GroupSum(rows, "Region"))

\* Lines 283-312: the daily trend, or its info message.
DailyLocation(cols, rows) ==
    IF rows # <<>> THEN
        IF "Date" \in cols THEN
            IF daily_rev(rows) # <<>> THEN Shown(daily_rev(rows)) ELSE Placeholder
        ELSE Placeholder
    ELSE Placeholder

\* ------------------------------------------------------------------ inputs

Tables(R) == UNION {[1..n -> R] : n \in 0..MaxRows}

Noon(d) == DateTime(d * TicksPerDay + (TicksPerDay \div 2))
LastSecond(d) == DateTime(end_date(d))
Midnight(d) == DateTime(d * TicksPerDay)

\* Rows whose cells exercise the coercions and the completeness check.
NormalizerInputRows ==
    {Row(Noon(0), Text("A"), Text("East"), u, up, Num(7)) :
        u \in {Num(2), Num(0), Text("inf"), Empty}, up \in {Num(3), Num(0)}}
    \cup {Row(Noon(0), Text("A"), Text("East"), Num(0), Text("inf"), Num(7)),
          Row(Noon(0), Text("A"), Text("East"), Text("4"), Text("abc"), Num(7)),
          Row(Text("1970-01-02"), Text("B"), Text("West"), Text("4"), Num(3), Empty),
          Row(Text("n/a"), Text("A"), Text("East"), Num(2), Num(3), Num(7)),
          Row(Noon(0), Empty, Text("East"), Num(2), Num(3), Num(7)),
          Row(Noon(0), Text("A"), Empty, Num(2), Num(3), Num(7))}

NormalizerFiles ==
    {XlsxFile(cols, rows) :
        cols \in {Columns, Columns \ {"Revenue"}, Columns \ {"Region"}},
        rows \in Tables(NormalizerInputRows)}

\* Valid rows around the end of day 0 and the start of day 1.
FilterInstants ==
    {LastSecond(0), DateTime(end_date(0) + 1), Midnight(1),
     DateTime(start_date(1) + TicksPerSecond)}

FilterInputRows ==
    {Row(d, p, r, Num(2), Num(3), Empty) :
        d \in FilterInstants, p \in {Text("A"), Text("B")},
        r \in {Text("East"), Text("West")}}

FilterFiles ==
    {XlsxFile(Columns \ {"Revenue"}, rows) : rows \in Tables(FilterInputRows)}

\* The contents data.xlsx takes during a session.
SessionFiles ==
    {AbsentFile, CorruptFile,
     XlsxFile(Columns, <<Row(Noon(0), Text("A"), Text("East"), Num(2), Num(3), Num(7))>>),
     XlsxFile(Columns, <<Row(Midnight(1), Text("B"), Text("West"), Num(4), Num(3), Num(7))>>),
     XlsxFile(Columns \ {"Region"},
              <<Row(Noon(0), Text("A"), Empty, Num(2), Num(3), Num(7))>>)}

\* ------------------------------------------------------------------ actions

InitRun ==
    /\ cache = EmptyCache
    /\ clicked = FALSE
    /\ pc = "button"
    /\ loaded = NoResult
    /\ df = NoneDf
    /\ selected_region = {}
    /\ selected_product = {}
    /\ date_range = NoDateRange
    /\ df_clean = <<>>
    /\ page = BlankPage
    /\ fileRead = FALSE
    /\ loads = 0
    /\ lastRead = NoResult

Init == file \in SessionFiles /\ InitRun
InitNormalizer == file \in NormalizerFiles /\ InitRun
InitFilter == file \in FilterFiles /\ InitRun

\* The user changes a widget, or loads the page again (after st.stop() or an
\* exception the page has no filter widget left): the framework runs the
\* script again.  The cache belongs to the process and outlives the page.
UserInteract ==
    /\ Idle
    /\ RunStart
    /\ clicked' = FALSE
    /\ UNCHANGED <<file, cache, loads, lastRead>>

\* The user presses Reload Data: the script runs with the button set.
ClickReload ==
    /\ Idle
    /\ RunStart
    /\ clicked' = TRUE
    /\ UNCHANGED <<file, cache, loads, lastRead>>

\* Somebody replaces, removes or damages data.xlsx.
FileChange ==
    /\ file' \in SessionFiles \ {file}
    /\ UNCHANGED <<cache, clicked, pc, loaded, df, selected_region, selected_product,
                   date_range, df_clean, page, fileRead, loads, lastRead>>

\* Lines 76-79: a pressed button clears the cache and st.rerun() starts the
\* script again, now with the button unset.
ReloadButton ==
    /\ pc = "button"
    /\ IF clicked
       THEN /\ cache' = ClearCache(cache)
            /\ clicked' = FALSE
            /\ pc' = "button"
       ELSE /\ cache' = cache
            /\ clicked' = clicked
            /\ pc' = "load"
    /\ loads' = IF cache'.hit THEN loads ELSE 0
    /\ UNCHANGED <<file, loaded, df, selected_region, selected_product, date_range,
                   df_clean, page, fileRead, lastRead>>

\* Lines 82-85: load_data through its cache, then the stop on error.
LoadData ==
    /\ pc = "load"
    /\ LET result == IF cache.hit THEN cache.value ELSE load_data(file)
       IN  /\ loaded' = result
           /\ df' = result.df
           /\ cache' = IF cache.hit THEN cache ELSE StoreInCache(result)
           /\ fileRead' = ~cache.hit
           /\ lastRead' = IF cache.hit THEN lastRead ELSE result
           /\ page' = IF result.error # NoError
                      THEN [page EXCEPT !.error = result.error] ELSE page
           /\ pc' = AfterLoad(result.error)
    /\ loads' = IF loads < MaxLoads THEN loads + 1 ELSE loads
    /\ UNCHANGED <<file, clicked, selected_region, selected_product, date_range,
                   df_clean>>

\* Lines 88-118.  An exception nobody catches ends the run with its trace on
\* the page.
Normalize ==
    /\ pc = "normalize"
    /\ IF df.isNone
       THEN /\ df' = df
            /\ page' = [page EXCEPT !.exception = "AttributeError"]
            /\ pc' = "crashed"
       ELSE IF DropnaRaises(Coerced(df))
       THEN /\ df' = Coerced(df)
            /\ page' = [page EXCEPT !.exception = "KeyError"]
            /\ pc' = "crashed"
       ELSE /\ df' = Dropna(Coerced(df))
            /\ page' = page
            /\ pc' = "widgets"
    /\ UNCHANGED <<file, cache, clicked, loaded, selected_region, selected_product,
                   date_range, df_clean, fileRead, loads, lastRead>>

\* Lines 128-157: the widgets return the session's values, which the user has
\* set to any part of the options and to any range.
Widgets ==
    /\ pc = "widgets"
    /\ selected_region' \in SUBSET unique(df.rows, "Region")
    /\ selected_product' \in SUBSET unique(df.rows, "Product")
    /\ date_range' \in DateInputs(df.rows)
    /\ pc' = "filter"
    /\ UNCHANGED <<file, cache, clicked, loaded, df, df_clean, page, fileRead, loads,
                   lastRead>>

\* Lines 160-178.
FilterEngine ==
    /\ pc = "filter"
    /\ df_clean' = FilterRows(df.rows, selected_region, selected_product, date_range)
    /\ pc' = "render"
    /\ UNCHANGED <<file, cache, clicked, loaded, df, selected_region, selected_product,
                   date_range, page, fileRead, loads, lastRead>>

\* Lines 187-337: KPI tiles, the three charts, the preview and the export.
Render ==
    /\ pc = "render"
    /\ page' = [page EXCEPT !.kpis = Shown(Kpis(df_clean)),
                            !.product = ProductLocation(df_clean),
                            !.region = RegionLocation(df_clean),
                            !.daily = DailyLocation(df.cols, df_clean),
                            !.preview = Shown(df_clean),
                            !.export = Shown(df_clean)]
    /\ pc' = "done"
    /\ UNCHANGED <<file, cache, clicked, loaded, df, selected_region, selected_product,
                   date_range, df_clean, fileRead, loads, lastRead>>

\* One run of the script.
NextRun ==
    \/ ReloadButton
    \/ LoadData
    \/ Normalize
    \/ Widgets
    \/ FilterEngine
    \/ Render

\* A session: runs, the user's actions between them, and the file changing.
Next ==
    \/ UserInteract
    \/ ClickReload
    \/ FileChange
    \/ NextRun

Spec == Init /\ [][Next]_vars
SpecNormalizer == InitNormalizer /\ [][NextRun]_vars
SpecFilter == InitFilter /\ [][NextRun]_vars

\* ------------------------------------------------------------------ claims

AfterLoadData == pc \notin {"button", "load"}
AfterNormalize == pc \in {"widgets", "filter", "render", "done"}
AfterFilter == pc \in {"render", "done"}

\* The rows of s, as a set.
RowsOf(s) == {s[i] : i \in 1..Len(s)}

\* C1: a raw table with no Region column goes through the Normalizer without
\* raising, leaves it with zero rows, and the run goes on to the later steps.
C1_NoRegionDropsAllRows ==
    (/\ ~loaded.df.isNone
     /\ "Region" \notin loaded.df.cols
     /\ pc \notin {"button", "load", "normalize"})
        => (pc # "crashed" /\ page.exception = NoError /\ df.rows = <<>>)

\* C2 as claimed: the cache holds successful loads only; a load that ended in
\* FileMissing or ParseError is never in it.
C2_CacheHoldsOnlySuccess == cache.hit => cache.value.error = NoError

\* C2 as amended: the cache holds nothing but the result of the most recent
\* read of the file, a failure included; once a run has loaded, the cache
\* holds exactly the (df, error) pair that run was given.
C2_CacheHoldsLastLoad ==
    /\ cache.hit => cache.value = lastRead
    /\ AfterLoadData => (cache.hit /\ cache.value = loaded)

\* A run that was handed a stored failure without reading the file, which by
\* now is a good spreadsheet.
C2_Witness ==
    /\ pc = "stopped"
    /\ ~fileRead
    /\ cache.hit
    /\ cache.value.error # NoError
    /\ file.kind = "xlsx"

\* C3: the reload step empties the cache; a load with an empty cache reads the
\* file as it is now; every later load up to the next reload returns the
\* stored result without reading the file, whatever the file holds by then.
C3_ReloadForcesReadElseCached ==
    /\ [][((pc = "button" /\ clicked /\ ~clicked') => ~cache'.hit)
          /\ ((pc = "load" /\ pc' # "load") =>
                IF cache.hit
                THEN loaded' = cache.value /\ cache' = cache /\ ~fileRead'
                ELSE loaded' = load_data(file) /\ fileRead')]_vars
    /\ [](AfterLoadData => (fileRead <=> loads = 1))
    /\ []((loads = 0) <=> ~cache.hit)

\* A run between two reloads, not the first, shows a stored result that the
\* file no longer matches.
C3_Witness ==
    /\ pc = "done"
    /\ loads >= 2
    /\ ~fileRead
    /\ loaded # load_data(file)

\* C4: when load_data returns an error the run shows it and stops there: the
\* frame is never normalized, nothing is filtered, and no tile, chart, table
\* or export is on the page.
C4_ErrorStopsRun ==
    (AfterLoadData /\ loaded.error # NoError) =>
        /\ pc = "stopped"
        /\ page.error = loaded.error
        /\ page.exception = NoError
        /\ df.isNone
        /\ df_clean = <<>>
        /\ \A loc \in {"kpis", "product", "region", "daily", "preview", "export"} :
              page[loc].kind = "blank"

\* A run that read a damaged file and stopped on its ParseError.
C4_Witness == pc = "stopped" /\ loaded.error = ParseErrorMsg /\ fileRead

\* C5: an empty Region selection or an empty Product selection gives a
\* filtered table with no rows, whatever the other selection and the range.
C5_EmptySelectionEmptyResult ==
    (AfterFilter /\ (selected_region = {} \/ selected_product = {}))
        => df_clean = <<>>

\* An empty Region selection over data, products selected, date filter skipped.
C5_Witness ==
    /\ pc = "render"
    /\ df.rows # <<>>
    /\ selected_region = {}
    /\ selected_product # {}
    /\ ~DateFilterApplies(date_range)

\* The rows that pass the Region and Product filters.
PassingRows == IsinOrEmpty(IsinOrEmpty(df.rows, "Region", selected_region),
                           "Product", selected_product)

\* 23:59:59 of day d, in ticks.
LastSecondOf(d) == d * TicksPerDay + (SecondsPerDay - 1) * TicksPerSecond

\* C6: with a range [D1, D2], a row that passed the Region and Product filters
\* and is dated on D2 up to 23:59:59 is kept, a row dated on D2+1 or later, or
\* before D1, is removed; with any other range value no row is removed.
C6_DateRangeEndOfDay ==
    AfterFilter =>
        IF ~date_range.isNone /\ Len(date_range.v) = 2
        THEN \A r \in RowsOf(PassingRows) :
                /\ (DateOf(r.Date) = date_range.v[2]
                    /\ r.Date.n <= LastSecondOf(date_range.v[2]))
                        => r \in RowsOf(df_clean)
                /\ (DateOf(r.Date) > date_range.v[2]
                    \/ DateOf(r.Date) < date_range.v[1])
                        => r \notin RowsOf(df_clean)
        ELSE df_clean = PassingRows

\* Range [day 0, day 0] over a row at 23:59:59 of day 0 and a row at 00:00:01
\* of day 1, both passing the other filters.
C6_Witness ==
    /\ pc = "render"
    /\ date_range = DateRange(<<0, 0>>)
    /\ \E r \in RowsOf(PassingRows) :
          r.Date.n = LastSecondOf(0) /\ r \in RowsOf(df_clean)
    /\ \E r \in RowsOf(PassingRows) :
          r.Date.n = TicksPerDay + TicksPerSecond /\ r \notin RowsOf(df_clean)

\* C7: when the filtered table is empty, the product chart, the region chart
\* and the daily trend each show a placeholder and no chart.
C7_EmptyShowsPlaceholders ==
    (pc = "done" /\ df_clean = <<>>) =>
        /\ page.product.kind = "placeholder"
        /\ page.region.kind = "placeholder"
        /\ page.daily.kind = "placeholder"

\* C8: every row the Normalizer keeps, and so every filtered and exported
\* row, has Revenue = Units * UnitPrice of its own coerced values, whatever
\* the Revenue column of the file said.
C8_RevenueRecomputed ==
    /\ AfterNormalize =>
          \A r \in RowsOf(df.rows) \cup RowsOf(df_clean) :
              r.Revenue = Mul(r.Units, r.UnitPrice)
    /\ pc = "done" =>
          \A r \in RowsOf(page.export.data) : r.Revenue = Mul(r.Units, r.UnitPrice)

\* The file has a Revenue column saying 7 in every row; rows are exported.
C8_Witness ==
    /\ pc = "done"
    /\ "Revenue" \in loaded.df.cols
    /\ loaded.df.rows # <<>>
    /\ \A r \in RowsOf(loaded.df.rows) : r.Revenue = Num(7)
    /\ Len(page.export.data) = Len(loaded.df.rows)

\* C9: for a non-empty filtered table revenueByDay has one entry per distinct
\* calendar date of the rows, each the sum of that date's Revenue, in strictly
\* ascending date order.
C9_OneEntryPerCalendarDate ==
    (pc = "done" /\ df_clean # <<>>) =>
        /\ page.daily.kind = "shown"
        /\ LET d == page.daily.data
               OnDay(day) == LET In(r) == DateOf(r.Date) = day
                             IN  SelectSeq(df_clean, In)
           IN  /\ Len(d) = Cardinality({DateOf(r.Date) : r \in RowsOf(df_clean)})
               /\ \A i \in 1..Len(d) :
                     d[i].Revenue = SumOf(OnDay(DateOf(d[i].Date)), "Revenue")
               /\ \A i \in 1..(Len(d) - 1) : DateOf(d[i].Date) < DateOf(d[i + 1].Date)

\* Whether row r satisfies the Region, Product and (when applied) date
\* predicates of the current selection.
Selected(r) ==
    /\ r.Region \in selected_region
    /\ r.Product \in selected_product
    /\ DateFilterApplies(date_range) =>
          (r.Date.n >= date_range.v[1] * TicksPerDay
           /\ r.Date.n <= LastSecondOf(date_range.v[2]))

NoNullField(r) ==
    \A c \in {"Date", "Product", "Region", "Units", "UnitPrice"} : ~isna(r[c])

\* C10 as claimed: every row leaving the Normalizer has non-null Date,
\* Product, Region, Units, UnitPrice and Revenue, and the table aggregated and
\* exported is exactly the cleaned rows that satisfy the three predicates.
C10_FinalDropnaRemovesNothing ==
    /\ AfterNormalize =>
          \A r \in RowsOf(df.rows) : NoNullField(r) /\ ~isna(r.Revenue)
    /\ AfterFilter => df_clean = SelectSeq(df.rows, Selected)

\* C10 as amended: every row leaving the Normalizer has non-null Date,
\* Product, Region, Units and UnitPrice; its Revenue is null only when one of
\* Units, UnitPrice is infinite and the other is zero; the table aggregated
\* and exported is the cleaned rows, in order, that satisfy the three
\* predicates and have a non-null Revenue.
C10_CleanIsSelectedWithRevenue ==
    /\ AfterNormalize =>
          \A r \in RowsOf(df.rows) :
              /\ NoNullField(r)
              /\ isna(r.Revenue) =>
                    \/ (r.Units = Inf /\ r.UnitPrice = Fin(0))
                    \/ (r.Units = Fin(0) /\ r.UnitPrice = Inf)
    /\ AfterFilter =>
          df_clean = SelectSeq(SelectSeq(df.rows, Selected), HasRevenue)

\* The final drop-null-Revenue step has removed a selected row.
C10_Witness ==
    /\ pc = "done"
    /\ Len(df_clean) < Len(SelectSeq(df.rows, Selected))
    /\ df_clean # <<>>

====
